---- MODULE Spec2Model ----
(***************************************************************************)
(* cyclonedx-gentoo: main / generate_bom (src/src/main.rs) and the         *)
(* CycloneDX document model (src/src/cyclonedx.rs).                        *)
(*                                                                         *)
(* A Rust String is a sequence of one-character strings, so that split,    *)
(* format! and the empty-token test are computed character by character.   *)
(* Option<T> is a sequence of length at most one: None is <<>>, Some(x)    *)
(* is <<x>>; Some("") = << <<>> >> differs from None.                      *)
(*                                                                         *)
(* The eix database is a tape of tokens in file order: a category, then    *)
(* its packages, each followed by its versions.  PackageReader walks the   *)
(* tape; every call into the eix crate may also return an I/O error.       *)
(*                                                                         *)
(* Bom.serial_number and Metadata.timestamp are written once by            *)
(* Bom::with_tool_version and read by no operation: the model keeps one    *)
(* representative value of each.                                           *)
(***************************************************************************)
EXTENDS Integers, Sequences, FiniteSets, TLC

VARIABLES args, db, calls, pc, reader, category, pkg, vi, bom, result, stdout

vars == <<args, db, calls, pc, reader, category, pkg, vi, bom, result, stdout>>

(* ------------------------------ bounds -------------------------------- *)

\* Longest database tape (categories + packages + versions) of the
\* structural inputs.
MaxTape == 8

\* Longest license string of the license inputs.
MaxLicLen == 4

(* ------------------------------ helpers ------------------------------- *)

None == <<>>

Some(x) == <<x>>

SeqUpTo(S, n) == UNION {[1..k -> S] : k \in 0..n}

Min(S) == CHOOSE x \in S : \A y \in S : x <= y

(* --------------------------- src/src/main.rs -------------------------- *)

\* Option<String>::unwrap_or_default(): the empty string for None.
UnwrapOrDefault(o) == IF o # None THEN o[1] ELSE <<>>

\* The condition of main.rs:55 with && in place of ||.
HasTopLevelAll(a) == a.group # None /\ a.name # None /\ a.version # None

\* main.rs:55  group.is_some() || name.is_some() || version.is_some()
HasTopLevel(a) == a.group # None \/ a.name # None \/ a.version # None

\* main.rs:56-64  the top-level "application" component.
TopComponent(a) ==
    [component_type |-> "application",
     group          |-> UnwrapOrDefault(a.group),
     name           |-> UnwrapOrDefault(a.name),
     version        |-> UnwrapOrDefault(a.version),
     description    |-> <<>>,
     licenses       |-> <<>>,
     purl           |-> <<>>]

\* The test of main.rs:67 left out: the inventory is always read.
SkipInventoryNever(a) == FALSE

\* main.rs:67  if !args.only_master { ... }: the inventory loop is skipped.
SkipInventory(a) == a.only_master

\* The test of main.rs:72 left out: every version yields a component.
IsInstalledAlways(v) == TRUE

\* main.rs:72  v.is_installed()
IsInstalled(v) == v.installed

\* str::split(' '): every maximal piece between single spaces, empty pieces
\* included ("" splits into one empty piece).
RECURSIVE SplitAcc(_, _, _)
SplitAcc(s, i, cur) ==
    IF i > Len(s) THEN <<cur>>
    ELSE IF s[i] = " " THEN <<cur>> \o SplitAcc(s, i + 1, <<>>)
    ELSE SplitAcc(s, i + 1, Append(cur, s[i]))

SplitSpace(s) == SplitAcc(s, 1, <<>>)

\* main.rs:73-82 without the is_empty() test of line 75.
LicenseNamesKeepEmpty(s) ==
    LET kept == SplitSpace(s)
    IN  [i \in 1..Len(kept) |-> [license |-> [name |-> kept[i]]]]

\* main.rs:73-82  one LicenseChoice per non-empty piece of pkg.licenses.
LicenseNames(s) ==
    LET kept == SelectSeq(SplitSpace(s), LAMBDA lic : lic # <<>>)
    IN  [i \in 1..Len(kept) |-> [license |-> [name |-> kept[i]]]]

\* main.rs:91-94  format!("pkg:gentoo/{}/{}@{}?repository={}", ...)
Purl(cat, name, version_string, reponame) ==
    <<"p", "k", "g", ":", "g", "e", "n", "t", "o", "o", "/">> \o cat
        \o <<"/">> \o name \o <<"@">> \o version_string
        \o <<"?", "r", "e", "p", "o", "s", "i", "t", "o", "r", "y", "=">>
        \o reponame

\* main.rs:84-95 with the component_type literal of line 57.
BuildComponentApplication(cat, p, v) ==
    [component_type |-> "application",
     group          |-> cat,
     name           |-> p.name,
     version        |-> v.version_string,
     description    |-> p.description,
     licenses       |-> LicenseNames(p.licenses),
     purl           |-> Purl(cat, p.name, v.version_string, v.reponame)]

\* main.rs:84-95  the "library" component of one installed version.
BuildComponent(cat, p, v) ==
    [component_type |-> "library",
     group          |-> cat,
     name           |-> p.name,
     version        |-> v.version_string,
     description    |-> p.description,
     licenses       |-> LicenseNames(p.licenses),
     purl           |-> Purl(cat, p.name, v.version_string, v.reponame)]

\* main.rs:96 with insert(0, component) in place of push(component).
PushFront(list, c) == <<c>> \o list

\* main.rs:96  bom.components.push(component)
Push(list, c) == Append(list, c)

(* ------------------------ src/src/cyclonedx.rs ------------------------ *)

\* cyclonedx.rs:88-111  Bom::new() / Bom::with_tool_version(CARGO_PKG_VERSION)
BomNew ==
    [bom_format    |-> "CycloneDX",
     spec_version  |-> "1.7",
     serial_number |-> "urn:uuid:<v4>",
     version       |-> 1,
     metadata      |-> [timestamp |-> "<now>",
                        tools     |-> <<[vendor  |-> "cyclonedx-gentoo",
                                         name    |-> "cyclonedx-gentoo",
                                         version |-> "CARGO_PKG_VERSION"]>>,
                        component |-> None],
     components    |-> <<>>]

\* cyclonedx.rs:52-69  #[derive(Serialize)] Component: every field is
\* written, component_type under the key "type".
ComponentJson(c) ==
    [type        |-> c.component_type,
     group       |-> c.group,
     name        |-> c.name,
     version     |-> c.version,
     description |-> c.description,
     licenses    |-> c.licenses,
     purl        |-> c.purl]

\* cyclonedx.rs:29-38  Metadata: component is skipped when it is None.
MetadataJson(m) ==
    IF m.component = None
    THEN [timestamp |-> m.timestamp, tools |-> m.tools]
    ELSE [timestamp |-> m.timestamp, tools |-> m.tools,
          component |-> ComponentJson(m.component[1])]

\* cyclonedx.rs:9-26  #[derive(Serialize)] Bom with its renamed keys.
BomJson(b) ==
    [bomFormat    |-> b.bom_format,
     specVersion  |-> b.spec_version,
     serialNumber |-> b.serial_number,
     version      |-> b.version,
     metadata     |-> MetadataJson(b.metadata),
     components   |-> [i \in 1..Len(b.components) |->
                          ComponentJson(b.components[i])]]

(* ------------------------------ inputs -------------------------------- *)

\* Names by tape position, deliberately not in alphabetical order.
Letters == <<"q", "d", "m", "a", "x", "c", "k", "b", "z", "f", "t", "e">>

Letter(i) == <<Letters[((i - 1) % Len(Letters)) + 1]>>

CatToken(n) == [kind |-> "cat", name |-> n]

PkgToken(n, d, l, h) ==
    [kind |-> "pkg", name |-> n, description |-> d, licenses |-> l,
     homepage |-> h]

VerToken(s, r, inst) ==
    [kind |-> "ver", version_string |-> s, reponame |-> r, installed |-> inst]

Gentoo == <<"g", "e", "n", "t", "o", "o">>

\* Tape shapes: C a category, P a package, I an installed version, U a
\* version that is not installed.  The tape starts with a category and a
\* version never follows a category directly.
WellFormed(s) ==
    /\ Len(s) > 0 => s[1] = "C"
    /\ \A i \in 1..Len(s) :
          s[i] \in {"I", "U"} => i > 1 /\ s[i - 1] \in {"P", "I", "U"}

Shapes == {s \in SeqUpTo({"C", "P", "I", "U"}, MaxTape) : WellFormed(s)}

Decorate(s) ==
    [i \in 1..Len(s) |->
        CASE s[i] = "C" -> CatToken(Letter(i))
          [] s[i] = "P" -> PkgToken(Letter(i), <<"d">>, <<"M">>, <<"h">>)
          [] OTHER      -> VerToken(Letter(i), Gentoo, s[i] = "I")]

Args(g, n, v, m) == [group |-> g, name |-> n, version |-> v, only_master |-> m]

\* Any inventory structure, with and without --only-master, with and
\* without a top-level component.
StructureInputs ==
    {[db |-> Decorate(s), args |-> a] :
        s \in Shapes,
        a \in {Args(None, None, None, m) : m \in BOOLEAN}
              \cup {Args(Some(<<"g">>), Some(<<"n">>), Some(<<"1">>), m) :
                       m \in BOOLEAN}}

\* Every combination of absent, empty and non-empty -g / -n / -v.
OptStrings == {None, Some(<<>>), Some(<<"x">>)}

ArgInputs ==
    {[db |-> Decorate(<<"C", "P", "I", "U">>), args |-> Args(g, n, v, m)] :
        g \in OptStrings, n \in OptStrings, v \in OptStrings, m \in BOOLEAN}

\* Every license string over two license letters and the space.
LicenseInputs ==
    {[db   |-> <<CatToken(<<"c">>), PkgToken(<<"p">>, <<"d">>, l, <<>>),
                 VerToken(<<"1">>, Gentoo, TRUE)>>,
      args |-> Args(None, None, None, FALSE)] :
        l \in SeqUpTo({"A", "B", " "}, MaxLicLen)}

\* Homepage strings with zero, one and two URLs.
Homepages == {<<>>, <<"h">>, <<"h", " ", "u">>, <<" ", "h", " ">>}

HomepageInputs ==
    {[db   |-> <<CatToken(<<"c">>), PkgToken(<<"p">>, <<"d">>, <<"M">>, h),
                 VerToken(<<"1">>, Gentoo, TRUE)>>,
      args |-> Args(None, None, None, FALSE)] : h \in Homepages}

\* Category, name, version and repository strings with and without the
\* package-url delimiters.
Names == {<<"a">>, <<"a", "/", "b">>, <<"a", "@", "b">>, <<"a", "?", "b">>}

Repos == {<<>>, Gentoo, <<"g", "?", "x">>}

PurlInputs ==
    {[db   |-> <<CatToken(c), PkgToken(n, <<"d">>, <<"M">>, <<>>),
                 VerToken(v, r, TRUE)>>,
      args |-> Args(None, None, None, FALSE)] :
        c \in Names, n \in Names, v \in Names, r \in Repos}

Inputs ==
    StructureInputs \cup ArgInputs \cup LicenseInputs \cup HomepageInputs
        \cup PurlInputs

(* ------------------------------- state -------------------------------- *)

\* calls is the log of the calls made into the eix crate, each with its
\* outcome: ok is FALSE when the call returned an I/O error.
Call(op, ok) == [op |-> op, ok |-> ok]

Init ==
    \E inp \in Inputs :
        /\ args = inp.args
        /\ db = inp.db
        /\ calls = <<>>
        /\ pc = "open"
        /\ reader = [pos |-> 0, category |-> <<>>]
        /\ category = <<>>
        /\ pkg = None
        /\ vi = 0
        /\ bom = None
        /\ result = None
        /\ stdout = <<>>

\* The `?` operator: the function returns Err(e); its locals, the document
\* under construction included, are dropped.
Fail(e) ==
    /\ pc' = "failed"
    /\ result' = Some([ok |-> FALSE, err |-> e])
    /\ bom' = None
    /\ category' = <<>>
    /\ pkg' = None
    /\ vi' = 0

\* main.rs:44-45 moved inside `if !args.only_master`: with --only-master
\* the database is not opened at all.
OpenErrSkippedForOnlyMaster ==
    /\ pc = "open"
    /\ IF args.only_master
       THEN /\ pc' = "new_bom"
            /\ UNCHANGED <<calls, bom, result, category, pkg, vi>>
       ELSE /\ calls' = Append(calls, Call("open_read", FALSE))
            /\ Fail("open_read")
    /\ UNCHANGED <<args, db, reader, stdout>>

\* main.rs:44-45  Database::open_read(db_path)?
OpenOk ==
    /\ pc = "open"
    /\ calls' = Append(calls, Call("open_read", TRUE))
    /\ pc' = "header"
    /\ UNCHANGED <<args, db, reader, category, pkg, vi, bom, result, stdout>>

\* main.rs:45  Database::open_read(db_path)? returned Err
OpenErr ==
    /\ pc = "open"
    /\ calls' = Append(calls, Call("open_read", FALSE))
    /\ Fail("open_read")
    /\ UNCHANGED <<args, db, reader, stdout>>

\* main.rs:46-47  db.read_header(0)?; PackageReader::new(db, header)
ReadHeaderOk ==
    /\ pc = "header"
    /\ calls' = Append(calls, Call("read_header", TRUE))
    /\ pc' = "new_bom"
    /\ reader' = [pos |-> 0, category |-> <<>>]
    /\ UNCHANGED <<args, db, category, pkg, vi, bom, result, stdout>>

\* main.rs:46  db.read_header(0)? returned Err
ReadHeaderErr ==
    /\ pc = "header"
    /\ calls' = Append(calls, Call("read_header", FALSE))
    /\ Fail("read_header")
    /\ UNCHANGED <<args, db, reader, stdout>>

\* main.rs:49-53  tool_version is None when called from main: Bom::new()
NewBom ==
    /\ pc = "new_bom"
    /\ bom' = Some(BomNew)
    /\ pc' = "top"
    /\ UNCHANGED <<args, db, calls, reader, category, pkg, vi, result, stdout>>

\* main.rs:55-67  metadata.component, then the only_master test.
TopLevelComponent ==
    /\ pc = "top"
    /\ bom' = IF HasTopLevel(args)
              THEN Some([bom[1] EXCEPT
                            !.metadata.component = Some(TopComponent(args))])
              ELSE bom
    /\ pc' = IF SkipInventory(args) THEN "ret" ELSE "cats"
    /\ UNCHANGED <<args, db, calls, reader, category, pkg, vi, result, stdout>>

\* Positions of the category tokens after the reader's position.
CategoriesAhead(r) == {j \in (r.pos + 1)..Len(db) : db[j].kind = "cat"}

\* main.rs:68-69  reader.next_category()? returned true
NextCategoryTrue ==
    /\ pc = "cats"
    /\ CategoriesAhead(reader) # {}
    /\ calls' = Append(calls, Call("next_category", TRUE))
    /\ LET j == Min(CategoriesAhead(reader))
       IN  /\ reader' = [pos |-> j, category |-> db[j].name]
           /\ category' = db[j].name
    /\ pc' = "pkgs"
    /\ UNCHANGED <<args, db, pkg, vi, bom, result, stdout>>

\* main.rs:68  reader.next_category()? returned false
NextCategoryFalse ==
    /\ pc = "cats"
    /\ CategoriesAhead(reader) = {}
    /\ calls' = Append(calls, Call("next_category", TRUE))
    /\ pc' = "ret"
    /\ UNCHANGED <<args, db, reader, category, pkg, vi, bom, result, stdout>>

\* main.rs:68  reader.next_category()? returned Err
NextCategoryErr ==
    /\ pc = "cats"
    /\ calls' = Append(calls, Call("next_category", FALSE))
    /\ Fail("next_category")
    /\ UNCHANGED <<args, db, reader, stdout>>

\* main.rs:70 with `while let Ok(Some(pkg))`: a read error ends the loop
\* like the end of the data.
ReadPackageErrEndsLoop ==
    /\ pc = "pkgs"
    /\ calls' = Append(calls, Call("read_package", FALSE))
    /\ pc' = "ret"
    /\ UNCHANGED <<args, db, reader, category, pkg, vi, bom, result, stdout>>

PackageAhead(r) == r.pos < Len(db) /\ db[r.pos + 1].kind = "pkg"

\* The version tokens that directly follow the package token at p.
VersionsAfter(p) ==
    LET stop == Min({j \in (p + 1)..(Len(db) + 1) :
                        j = Len(db) + 1 \/ db[j].kind # "ver"})
    IN  SubSeq(db, p + 1, stop - 1)

\* main.rs:70  reader.read_package()? returned Some(pkg)
ReadPackageSome ==
    /\ pc = "pkgs"
    /\ PackageAhead(reader)
    /\ calls' = Append(calls, Call("read_package", TRUE))
    /\ LET p  == reader.pos + 1
           vs == VersionsAfter(p)
       IN  /\ pkg' = Some([name        |-> db[p].name,
                           description |-> db[p].description,
                           licenses    |-> db[p].licenses,
                           homepage    |-> db[p].homepage,
                           versions    |-> vs])
           /\ reader' = [reader EXCEPT !.pos = p + Len(vs)]
    /\ vi' = 1
    /\ pc' = "vers"
    /\ UNCHANGED <<args, db, category, bom, result, stdout>>

\* main.rs:70  reader.read_package()? returned None
ReadPackageNone ==
    /\ pc = "pkgs"
    /\ ~PackageAhead(reader)
    /\ calls' = Append(calls, Call("read_package", TRUE))
    /\ pc' = "cats"
    /\ UNCHANGED <<args, db, reader, category, pkg, vi, bom, result, stdout>>

\* main.rs:70  reader.read_package()? returned Err
ReadPackageErr ==
    /\ pc = "pkgs"
    /\ calls' = Append(calls, Call("read_package", FALSE))
    /\ Fail("read_package")
    /\ UNCHANGED <<args, db, reader, stdout>>

\* main.rs:71-97  one iteration of `for v in &pkg.versions`, v installed
PushComponent ==
    /\ pc = "vers"
    /\ vi <= Len(pkg[1].versions)
    /\ IsInstalled(pkg[1].versions[vi])
    /\ bom' = Some([bom[1] EXCEPT !.components =
                       Push(@, BuildComponent(category, pkg[1],
                                              pkg[1].versions[vi]))])
    /\ vi' = vi + 1
    /\ UNCHANGED <<args, db, calls, pc, reader, category, pkg, result, stdout>>

\* main.rs:71-72  one iteration of the loop, v not installed
SkipVersion ==
    /\ pc = "vers"
    /\ vi <= Len(pkg[1].versions)
    /\ ~IsInstalled(pkg[1].versions[vi])
    /\ vi' = vi + 1
    /\ UNCHANGED <<args, db, calls, pc, reader, category, pkg, bom, result,
                   stdout>>

\* main.rs:98-99  the for loop ends; pkg is dropped
EndVersions ==
    /\ pc = "vers"
    /\ vi > Len(pkg[1].versions)
    /\ pkg' = None
    /\ vi' = 0
    /\ pc' = "pkgs"
    /\ UNCHANGED <<args, db, calls, reader, category, bom, result, stdout>>

\* main.rs:103  Ok(bom)
ReturnOk ==
    /\ pc = "ret"
    /\ result' = Some([ok |-> TRUE, err |-> ""])
    /\ category' = <<>>
    /\ pc' = "returned"
    /\ UNCHANGED <<args, db, calls, reader, pkg, vi, bom, stdout>>

\* main.rs:38-40  println!("{}", serde_json::to_string_pretty(&bom)?); Ok(())
MainPrint ==
    /\ pc = "returned"
    /\ stdout' = Append(stdout, BomJson(bom[1]))
    /\ pc' = "exit_ok"
    /\ UNCHANGED <<args, db, calls, reader, category, pkg, vi, bom, result>>

\* main.rs:36  generate_bom(&args, None)?  main returns the error
MainErr ==
    /\ pc = "failed"
    /\ pc' = "exit_err"
    /\ UNCHANGED <<args, db, calls, reader, category, pkg, vi, bom, result,
                   stdout>>

Next ==
    \/ OpenOk
    \/ OpenErr
    \/ ReadHeaderOk
    \/ ReadHeaderErr
    \/ NewBom
    \/ TopLevelComponent
    \/ NextCategoryTrue
    \/ NextCategoryFalse
    \/ NextCategoryErr
    \/ ReadPackageSome
    \/ ReadPackageNone
    \/ ReadPackageErr
    \/ PushComponent
    \/ SkipVersion
    \/ EndVersions
    \/ ReturnOk
    \/ MainPrint
    \/ MainErr

Spec == Init /\ [][Next]_vars

(* ------------------- the inventory, read off the tape ----------------- *)

Max(S) == CHOOSE x \in S : \A y \in S : x >= y

\* The k-th smallest element of a set of positions.
NthOf(S, k) == CHOOSE i \in S : Cardinality({j \in S : j <= i}) = k

VersionsAt == {i \in 1..Len(db) : db[i].kind = "ver"}

InstalledAt == {i \in VersionsAt : db[i].installed}

\* The category and the package a version token belongs to.
CatAt(i) == db[Max({j \in 1..i : db[j].kind = "cat"})]

PkgAt(i) == db[Max({j \in 1..i : db[j].kind = "pkg"})]

KeyAt(i) == <<CatAt(i).name, PkgAt(i).name, db[i].version_string>>

KeyOf(c) == <<c.group, c.name, c.version>>

Components == IF bom = None THEN <<>> ELSE bom[1].components

ReturnedOk == result # None /\ result[1].ok

\* The starts of the maximal space-free runs of s, and the run at a start.
TokenStarts(s) ==
    {i \in 1..Len(s) : s[i] # " " /\ (i = 1 \/ s[i - 1] = " ")}

TokenAt(s, i) ==
    SubSeq(s, i, Max({j \in i..Len(s) : \A k \in i..j : s[k] # " "}))

(* ------------------------------- claims ------------------------------- *)

\* C1: with only_master = true the component list stays empty whatever the
\* inventory holds, in the returned and in the printed document, and once
\* the database is opened and its header read the call cannot fail.
OnlyMasterEmpty ==
    args.only_master =>
        /\ Components = <<>>
        /\ \A d \in 1..Len(stdout) : stdout[d].components = <<>>
        /\ (result # None /\ ~result[1].ok) =>
              result[1].err \in {"open_read", "read_header"}
        /\ pc \in {"returned", "exit_ok"} => ReturnedOk /\ bom # None

OnlyMasterEmptyWitness ==
    /\ args.only_master
    /\ pc = "exit_ok"
    /\ Cardinality(InstalledAt) >= 2
    /\ Len(stdout) = 1

\* C2: with only_master = false the components are, at every moment, the
\* installed versions read so far in tape order (category order, package
\* order within a category, version order within a package), and on
\* return they are all of them in that order.
ComponentOrder ==
    ~args.only_master =>
        /\ Len(Components) <= Cardinality(InstalledAt)
        /\ \A k \in 1..Len(Components) :
              KeyOf(Components[k]) = KeyAt(NthOf(InstalledAt, k))
        /\ ReturnedOk =>
              [k \in 1..Len(Components) |-> KeyOf(Components[k])]
                  = [k \in 1..Cardinality(InstalledAt) |->
                        KeyAt(NthOf(InstalledAt, k))]

ComponentOrderWitness ==
    /\ ~args.only_master
    /\ pc = "exit_ok"
    /\ Len(Components) >= 3
    /\ Cardinality({Components[k].group : k \in 1..Len(Components)}) >= 2
    /\ \E k \in 1..(Len(Components) - 1) :
          /\ Components[k].group = Components[k + 1].group
          /\ Components[k].name # Components[k + 1].name

\* C3: with only_master = false the returned list has as many components
\* as there are installed versions, one per installed version and none for
\* a version that is not installed.
OnePerInstalledVersion ==
    (~args.only_master /\ ReturnedOk) =>
        /\ Len(Components) = Cardinality(InstalledAt)
        /\ \A i \in VersionsAt :
              Cardinality({k \in 1..Len(Components) :
                              KeyOf(Components[k]) = KeyAt(i)})
                  = Cardinality({j \in InstalledAt : KeyAt(j) = KeyAt(i)})

OnePerInstalledVersionWitness ==
    /\ ~args.only_master
    /\ pc = "exit_ok"
    /\ \E i \in InstalledAt :
          /\ i + 2 \in DOMAIN db
          /\ i + 1 \in VersionsAt \ InstalledAt
          /\ i + 2 \in InstalledAt
    /\ Len(Components) >= 2

\* The package-url grammar scheme:type/namespace/name@version?qualifiers,
\* split as a package-url parser splits it: the qualifiers at the last
\* '?', the scheme at the first ':', the type at the first '/', the
\* version at the last '@', the name at the last '/'.
IndexesOf(s, ch) == {i \in 1..Len(s) : s[i] = ch}

ParsePurl(s) ==
    LET q    == IndexesOf(s, "?")
        main == IF q = {} THEN s ELSE SubSeq(s, 1, Max(q) - 1)
        rest == SubSeq(main, Min(IndexesOf(main, ":")) + 1, Len(main))
        path == SubSeq(rest, Min(IndexesOf(rest, "/")) + 1, Len(rest))
        at   == IndexesOf(path, "@")
        nn   == IF at = {} THEN path ELSE SubSeq(path, 1, Max(at) - 1)
        sl   == IndexesOf(nn, "/")
    IN  [namespace |-> IF sl = {} THEN <<>> ELSE SubSeq(nn, 1, Max(sl) - 1),
         name      |-> IF sl = {} THEN nn
                       ELSE SubSeq(nn, Max(sl) + 1, Len(nn)),
         version   |-> IF at = {} THEN <<>>
                       ELSE SubSeq(path, Max(at) + 1, Len(path))]

\* C4: every component's purl is pkg:gentoo/<category>/<name>@<version>
\* plus ?repository=<repo>, and parsing it gives back the category, the
\* name and the version, also when they contain '/', '@' or '?'.
PurlRoundTrip ==
    \A k \in 1..Len(Components) :
        LET i == NthOf(InstalledAt, k)
            c == Components[k]
        IN  /\ c.purl = <<"p", "k", "g", ":", "g", "e", "n", "t", "o", "o",
                          "/">> \o CatAt(i).name \o <<"/">> \o PkgAt(i).name
                            \o <<"@">> \o db[i].version_string
                            \o <<"?", "r", "e", "p", "o", "s", "i", "t", "o",
                                 "r", "y", "=">> \o db[i].reponame
            /\ ParsePurl(c.purl) = [namespace |-> CatAt(i).name,
                                    name      |-> PkgAt(i).name,
                                    version   |-> db[i].version_string]

\* C5: a component has one license entry per non-empty space-separated
\* token of its package's license string, in token order, each named by
\* its token verbatim; leading, trailing and repeated spaces and the empty
\* string yield no entry.
LicenseEntries ==
    \A k \in 1..Len(Components) :
        LET lic    == PkgAt(NthOf(InstalledAt, k)).licenses
            starts == TokenStarts(lic)
            got    == Components[k].licenses
        IN  /\ Len(got) = Cardinality(starts)
            /\ \A n \in 1..Len(got) :
                  got[n] = [license |->
                               [name |-> TokenAt(lic, NthOf(starts, n))]]

LicenseEntriesWitness ==
    /\ pc = "exit_ok"
    /\ \E k \in 1..Len(Components) :
          /\ PkgAt(NthOf(InstalledAt, k)).licenses = <<"B", " ", " ", "A">>
          /\ Len(Components[k].licenses) = 2

\* What the caller supplied, read off args.
Supplied == args.group # None \/ args.name # None \/ args.version # None

OrEmpty(o) == IF o = None THEN <<>> ELSE o[1]

\* C6: metadata.component is present exactly when one of group, name,
\* version was supplied; it then has type "application", the supplied
\* values, the empty string for what was not supplied, and no license
\* entry; when absent it is left out of the serialized metadata.
TopLevelPresence ==
    /\ (bom # None /\ pc # "top") =>
          LET mc == bom[1].metadata.component
          IN  /\ (mc # None) <=> Supplied
              /\ mc # None =>
                    /\ mc[1].component_type = "application"
                    /\ mc[1].group = OrEmpty(args.group)
                    /\ mc[1].name = OrEmpty(args.name)
                    /\ mc[1].version = OrEmpty(args.version)
                    /\ mc[1].licenses = <<>>
    /\ \A d \in 1..Len(stdout) :
          LET m == stdout[d].metadata
          IN  /\ ("component" \in DOMAIN m) <=> Supplied
              /\ "component" \in DOMAIN m =>
                    /\ m.component.type = "application"
                    /\ m.component.group = OrEmpty(args.group)
                    /\ m.component.name = OrEmpty(args.name)
                    /\ m.component.version = OrEmpty(args.version)
                    /\ m.component.licenses = <<>>

TopLevelPresenceWitness ==
    /\ pc = "exit_ok"
    /\ args.group = None
    /\ args.name = Some(<<"x">>)
    /\ args.version = None
    /\ stdout[1].metadata.component.group = <<>>

\* The external references of a serialized component: those under its
\* externalReferences key, none when it has no such key.
ExternalReferences(c) ==
    IF "externalReferences" \in DOMAIN c THEN c.externalReferences ELSE <<>>

\* C7: a component carries one external reference of kind "website" per
\* non-empty space-separated token of its package's homepage string, with
\* the token as URL, in token order.
HomepageReferences ==
    \A d \in 1..Len(stdout) :
        \A k \in 1..Len(stdout[d].components) :
            LET home   == PkgAt(NthOf(InstalledAt, k)).homepage
                starts == TokenStarts(home)
                refs   == ExternalReferences(stdout[d].components[k])
            IN  /\ Len(refs) = Cardinality(starts)
                /\ \A n \in 1..Len(refs) :
                      refs[n] = [type |-> "website",
                                 url  |-> TokenAt(home, NthOf(starts, n))]

\* C8: when a call into the database fails, generate_bom returns that
\* error and no document and nothing is printed; what is printed is one
\* document, assembled from the whole inventory.
AllOrNothing ==
    /\ (\E c \in 1..Len(calls) : ~calls[c].ok) =>
          /\ result = Some([ok |-> FALSE, err |-> calls[Len(calls)].op])
          /\ bom = None
          /\ stdout = <<>>
    /\ stdout # <<>> =>
          /\ Len(stdout) = 1
          /\ ReturnedOk
          /\ ~args.only_master =>
                /\ reader.pos = Len(db)
                /\ Len(stdout[1].components) = Cardinality(InstalledAt)

AllOrNothingWitness ==
    /\ pc = "exit_err"
    /\ result = Some([ok |-> FALSE, err |-> "read_package"])
    /\ \E i \in InstalledAt : i <= reader.pos
    /\ reader.pos < Len(db)
    /\ stdout = <<>>

\* C9: at every moment every element of the component list has type
\* "library"; the top-level component, if any, has type "application",
\* sits in metadata.component and is no element of the component list;
\* the same holds of the printed document.
ComponentTypes ==
    /\ bom # None =>
          LET mc == bom[1].metadata.component
          IN  /\ \A k \in 1..Len(Components) :
                    /\ Components[k].component_type = "library"
                    /\ mc # None => Components[k] # mc[1]
              /\ mc # None => mc[1].component_type = "application"
    /\ \A d \in 1..Len(stdout) :
          /\ \A k \in 1..Len(stdout[d].components) :
                stdout[d].components[k].type = "library"
          /\ "component" \in DOMAIN stdout[d].metadata =>
                stdout[d].metadata.component.type = "application"

ComponentTypesWitness ==
    /\ pc = "vers"
    /\ bom # None
    /\ bom[1].metadata.component # None
    /\ Len(Components) >= 2

\* C10: the database is opened and its header read before anything else,
\* also with only_master = true: a document exists only after both calls
\* succeeded, a failure of either is the result, and with only_master =
\* true no category and no package is ever read.
OpenBeforeAnything ==
    /\ (bom # None \/ ReturnedOk \/ stdout # <<>>) =>
          /\ Len(calls) >= 2
          /\ calls[1] = Call("open_read", TRUE)
          /\ calls[2] = Call("read_header", TRUE)
    /\ \A c \in 1..Len(calls) :
          (calls[c].op \in {"open_read", "read_header"} /\ ~calls[c].ok) =>
              /\ result = Some([ok |-> FALSE, err |-> calls[c].op])
              /\ bom = None
    /\ args.only_master =>
          /\ reader.pos = 0
          /\ \A c \in 1..Len(calls) :
                calls[c].op \in {"open_read", "read_header"}

OpenBeforeAnythingWitness ==
    /\ args.only_master
    /\ db # <<>>
    /\ pc = "exit_err"
    /\ result = Some([ok |-> FALSE, err |-> "read_header"])
    /\ stdout = <<>>

====
